---- MODULE Spec2Model ----
(***************************************************************************)
(* Model of src/src/domain_search.py: DomainSearcher.check_domains runs    *)
(* DomainSearcher.check_domain_availability over every base name + suffix  *)
(* on a ThreadPoolExecutor of min(20, N) workers, collects one result per  *)
(* future in completion order and hands the list to _pretty_print_results. *)
(***************************************************************************)
EXTENDS Naturals, Sequences, FiniteSets, Bags, TLC

(***************************************************************************)
(* Bounds of the model.                                                    *)
(***************************************************************************)
\* longest base-name list of the small batches
MaxBases == 2
\* most candidates (base names x suffixes) of the small batches
MaxBatch == 4
\* size of the one large batch, which is larger than the worker cap
PoolBatch == 21

(***************************************************************************)
(* Python values: the type, the text str() gives, and len() of a list.     *)
(***************************************************************************)
PyNone == [t |-> "NoneType", v |-> "None", n |-> 0]

PyTrue == [t |-> "bool", v |-> "True", n |-> 0]

PyFalse == [t |-> "bool", v |-> "False", n |-> 0]

PyStr(s) == [t |-> "str", v |-> s, n |-> 0]

PyList(text, len) == [t |-> "list", v |-> text, n |-> len]

PyDate(text) == [t |-> "datetime", v |-> text, n |-> 0]

\* str(x): a string holding the text of x; str(None) is the string "None"
str(x) == PyStr(x.v)

(***************************************************************************)
(* Exceptions: class and message; str(e) is the message.                   *)
(***************************************************************************)
\* v is the text str(e) gives: the message
NoExc == [cls |-> "", v |-> ""]

Exc(cls, msg) == [cls |-> cls, v |-> msg]

gaierror == Exc("gaierror", "[Errno -2] Name or service not known")

PywhoisError == Exc("PywhoisError", "No match for domain")

\* PywhoisError for a response that is not a no-match: the parser's other error
ParseFailure == Exc("PywhoisError", "No whois server is known for this kind of object.")

\* the errors a DNS resolution raises besides gaierror
DnsErrors == {Exc("UnicodeError", "label empty or too long"), Exc("timeout", "timed out")}

\* the errors a WHOIS lookup raises besides PywhoisError
WhoisErrors ==
    {Exc("timeout", "timed out"), Exc("ConnectionRefusedError", "[Errno 111] Connection refused"),
     Exc("ConnectionResetError", "")}

\* what reading an attribute of the WHOIS record may raise
AttrErrors == {Exc("ValueError", "unknown date format"), PywhoisError}

(***************************************************************************)
(* What the network answers to one probe.                                  *)
(***************************************************************************)
\* an attribute of the WHOIS record: a value, absent, or reading it raises
AttrValue(val) == [has |-> "value", val |-> val, exc |-> NoExc]

AttrAbsent == [has |-> "absent", val |-> PyNone, exc |-> NoExc]

AttrRaises(e) == [has |-> "raises", val |-> PyNone, exc |-> e]

DnsOk == [raises |-> FALSE, exc |-> NoExc]

DnsRaises(e) == [raises |-> TRUE, exc |-> e]

WhoisRecord(dn, reg, exp) ==
    [raises |-> FALSE, exc |-> NoExc, domain_name |-> dn, registrar |-> reg,
     expiration_date |-> exp]

WhoisRaises(e) ==
    [raises |-> TRUE, exc |-> e, domain_name |-> AttrAbsent, registrar |-> AttrAbsent,
     expiration_date |-> AttrAbsent]

\* crash: the call raises outside the probe's try block
Answer(crash, dns, whois) == [crash |-> crash, dns |-> dns, whois |-> whois]

DnsAnswers == {DnsOk, DnsRaises(gaierror)} \cup {DnsRaises(e) : e \in DnsErrors}

\* domain_name of a record with no registration
EmptyNames == {AttrValue(PyNone), AttrValue(PyList("[]", 0)), AttrValue(PyStr(""))}

\* domain_name of a registration record
SetNames == {AttrValue(PyStr("ACME.COM")), AttrValue(PyList("['ACME.COM', 'acme.com']", 2))}

RegistrarAttrs ==
    {AttrValue(PyNone), AttrValue(PyStr("NameCorp")), AttrAbsent}
        \cup {AttrRaises(e) : e \in AttrErrors}

ExpirationAttrs ==
    {AttrValue(PyNone), AttrValue(PyDate("2030-01-01 00:00:00")), AttrAbsent}
        \cup {AttrRaises(e) : e \in AttrErrors}

WhoisAnswers ==
    {WhoisRaises(PywhoisError), WhoisRaises(ParseFailure)}
        \cup {WhoisRaises(e) : e \in WhoisErrors}
        \cup {WhoisRecord(dn, AttrValue(PyNone), AttrValue(PyNone)) :
                dn \in EmptyNames \cup {AttrAbsent}}
        \cup {WhoisRecord(dn, reg, exp) :
                dn \in SetNames, reg \in RegistrarAttrs, exp \in ExpirationAttrs}

\* every answer to a single probe
AllAnswers ==
    {Answer(FALSE, d, w) : d \in DnsAnswers, w \in WhoisAnswers}
        \cup {Answer(TRUE, DnsOk, WhoisRaises(PywhoisError))}

TakenAnswer ==
    Answer(FALSE, DnsOk,
           WhoisRecord(AttrValue(PyStr("ACME.COM")), AttrValue(PyStr("NameCorp")),
                       AttrValue(PyDate("2030-01-01 00:00:00"))))

NoMatchAnswer == Answer(FALSE, DnsRaises(gaierror), WhoisRaises(PywhoisError))

TimeoutAnswer == Answer(FALSE, DnsRaises(gaierror), WhoisRaises(Exc("timeout", "timed out")))

CrashAnswer == Answer(TRUE, DnsOk, WhoisRaises(PywhoisError))

\* the answers of the batches of several candidates
BatchAnswers == {TakenAnswer, NoMatchAnswer, TimeoutAnswer, CrashAnswer}

\* the answers of the large batch
PoolAnswers == {TakenAnswer}

\* the answers of a run, by the name of its network
Answers(net) ==
    IF net = "any" THEN AllAnswers ELSE IF net = "batch" THEN BatchAnswers ELSE PoolAnswers

(***************************************************************************)
(* DomainSearcher.check_domain_availability                                *)
(***************************************************************************)
\* the result dict as first built
NewResult(domain) ==
    [domain |-> domain, available |-> PyFalse, error |-> PyNone, registrar |-> PyNone,
     expiration_date |-> PyNone]

\* the state of the try block: the result so far, the exception raised (NoExc while
\* none is), and the network calls made
Frame(res, exc, calls) == [res |-> res, exc |-> exc, calls |-> calls]

\* DnsStep resolving a second time after an error
DnsStepRetrying(f, dns) ==
    LET called == Append(f.calls, "gethostbyname")
    IN  IF dns.raises /\ dns.exc.cls # "gaierror"
        THEN Frame(f.res, dns.exc, Append(called, "gethostbyname"))
        ELSE IF dns.raises
             THEN Frame(f.res, NoExc, called)
             ELSE Frame([f.res EXCEPT !.available = PyFalse], NoExc, called)

\* DnsStep taking a name that does not resolve for an unregistered one
DnsStepNoMatchOnFailure(f, dns) ==
    LET called == Append(f.calls, "gethostbyname")
    IN  IF dns.raises /\ dns.exc.cls # "gaierror"
        THEN Frame(f.res, dns.exc, called)
        ELSE IF dns.raises
             THEN Frame(f.res, PywhoisError, called)
             ELSE Frame([f.res EXCEPT !.available = PyFalse], NoExc, called)

\* socket.gethostbyname(domain): a gaierror is passed over, any other error leaves
\* the try block
DnsStep(f, dns) ==
    LET called == Append(f.calls, "gethostbyname")
    IN  IF dns.raises /\ dns.exc.cls # "gaierror"
        THEN Frame(f.res, dns.exc, called)
        ELSE IF dns.raises
             THEN Frame(f.res, NoExc, called)
             ELSE Frame([f.res EXCEPT !.available = PyFalse], NoExc, called)

\* w.domain_name is None or an empty list
NoDomainName(val) == val.t = "NoneType" \/ (val.t = "list" /\ val.n = 0)

\* result["registrar"] = w.registrar if hasattr(w, "registrar") else None
RegistrarStep(f, w) ==
    IF f.exc # NoExc
    THEN f
    ELSE IF w.registrar.has = "raises"
         THEN Frame(f.res, w.registrar.exc, f.calls)
         ELSE Frame([f.res EXCEPT !.registrar =
                        IF w.registrar.has = "value" THEN w.registrar.val ELSE PyNone],
                    NoExc, f.calls)

\* result["expiration_date"] = str(w.expiration_date) if hasattr(...) else None
ExpirationStep(f, w) ==
    IF f.exc # NoExc
    THEN f
    ELSE IF w.expiration_date.has = "raises"
         THEN Frame(f.res, w.expiration_date.exc, f.calls)
         ELSE Frame([f.res EXCEPT !.expiration_date =
                        IF w.expiration_date.has = "value"
                        THEN str(w.expiration_date.val) ELSE PyNone],
                    NoExc, f.calls)

\* w = whois.whois(domain) and the reading of the record
WhoisStep(f, w) ==
    LET called == Append(f.calls, "whois")
    IN  IF f.exc # NoExc
        THEN f
        ELSE IF w.raises
        THEN Frame(f.res, w.exc, called)
        ELSE IF w.domain_name.has = "raises"
        THEN Frame(f.res, w.domain_name.exc, called)
        ELSE IF w.domain_name.has = "absent"
        THEN Frame(f.res, Exc("AttributeError", "object has no attribute 'domain_name'"),
                   called)
        ELSE IF NoDomainName(w.domain_name.val)
        THEN Frame([f.res EXCEPT !.available = PyTrue], NoExc, called)
        ELSE ExpirationStep(
                 RegistrarStep(Frame([f.res EXCEPT !.available = PyFalse], NoExc, called), w),
                 w)

\* the try block
TryBlock(domain, dns, whois) ==
    WhoisStep(DnsStep(Frame(NewResult(domain), NoExc, <<>>), dns), whois)

\* what a call leaves in its future: the value returned, or the exception raised
NoResult == NewResult("")

Returned(res) == [raised |-> FALSE, exc |-> NoExc, ret |-> res]

Raised(e) == [raised |-> TRUE, exc |-> e, ret |-> NoResult]

\* Handlers without line 92: the error is recorded, the availability left as it was
HandlersNoUnknown(f) ==
    IF f.exc = NoExc
    THEN Returned(f.res)
    ELSE IF f.exc.cls = "PywhoisError"
         THEN Returned([f.res EXCEPT !.available = PyTrue])
         ELSE Returned([f.res EXCEPT !.error = str(f.exc)])

\* Handlers with one bare except clause: every error reads as no match
HandlersAllNoMatch(f) ==
    IF f.exc = NoExc THEN Returned(f.res) ELSE Returned([f.res EXCEPT !.available = PyTrue])

\* Handlers catching OSError in place of Exception: any other error leaves the call
HandlersOSErrorOnly(f) ==
    IF f.exc = NoExc
    THEN Returned(f.res)
    ELSE IF f.exc.cls = "PywhoisError"
         THEN Returned([f.res EXCEPT !.available = PyTrue])
         ELSE IF f.exc.cls \in {"timeout", "ConnectionRefusedError", "ConnectionResetError"}
              THEN Returned([f.res EXCEPT !.error = str(f.exc), !.available = PyNone])
              ELSE Raised(f.exc)

\* lines 86-94: the except clauses and the return
Handlers(f) ==
    IF f.exc = NoExc
    THEN Returned(f.res)
    ELSE IF f.exc.cls = "PywhoisError"
         THEN Returned([f.res EXCEPT !.available = PyTrue])
         ELSE Returned([f.res EXCEPT !.error = str(f.exc), !.available = PyNone])

\* check_domain_availability returning Taken as soon as the name resolves
check_domain_availability_DnsDecides(domain, a) ==
    IF a.crash
    THEN Raised(Exc("MemoryError", ""))
    ELSE IF ~a.dns.raises
         THEN Returned(NewResult(domain))
         ELSE Handlers(TryBlock(domain, a.dns, a.whois))

\* a.crash: the call fails before it enters the try block (no memory for the dict
\* of lines 53-59), the one place where nothing catches
check_domain_availability(domain, a) ==
    IF a.crash
    THEN Raised(Exc("MemoryError", ""))
    ELSE Handlers(TryBlock(domain, a.dns, a.whois))

(***************************************************************************)
(* The state of one run.                                                   *)
(***************************************************************************)
VARIABLES
    pc,                  \* where run() is: "call", "collect", "returned", "printed", "raised"
    domains,             \* the base names given to check_domains
    tlds_to_check,       \* self.tlds_to_check
    network,             \* which answers the network may give to a probe of this run
    domain_combinations, \* the expanded candidates
    max_workers,         \* the size of the pool
    work_queue,          \* the pool's queue: submitted calls no worker has taken yet
    running,             \* bag of the domains whose probe a worker is running
    stuck,               \* bag of the domains whose probe waits for an answer that never comes
    done,                \* bag of the finished futures as_completed has not yielded yet
    results,             \* the results list
    origin,              \* for results[k], the domain submitted and the network's answer
    pbar,                \* the progress bar's count
    raised,              \* the exception check_domains raised, NoExc when none
    table                \* table_data of _pretty_print_results

vars ==
    <<pc, domains, tlds_to_check, network, domain_combinations, max_workers, work_queue,
      running, stuck, done, results, origin, pbar, raised, table>>

\* the cap of line 107
WorkerCap == 20

BaseNames == {"acme", "beta"}

\* self.tlds_to_check as __init__ sets it
DefaultTlds == <<".com", ".co", ".ai">>

\* the suffix lists of the runs: the one __init__ sets, shorter ones, and none
SuffixLists == {<< >>, <<".com">>, <<".com", ".ai">>, DefaultTlds}

BaseLists == UNION {[1..n -> BaseNames] : n \in 0..MaxBases}

Min(a, b) == IF a < b THEN a ELSE b

\* for tld in self.tlds_to_check: domain + tld
Suffixed(domain, tlds) == [j \in 1..Len(tlds) |-> domain \o tlds[j]]

\* Expand with the loops exchanged: for tld ...: for domain ...
ExpandSuffixMajor(doms, tlds) ==
    [k \in 1..(Len(doms) * Len(tlds)) |->
        doms[((k - 1) % Len(doms)) + 1] \o tlds[((k - 1) \div Len(doms)) + 1]]

RECURSIVE Expand(_, _)
\* for domain in domains: for tld in self.tlds_to_check: append(domain + tld)
Expand(doms, tlds) ==
    IF doms = << >> THEN << >> ELSE Suffixed(Head(doms), tlds) \o Expand(Tail(doms), tlds)

\* PoolSize never below one worker
PoolSizeAtLeastOne(n) == IF n < 1 THEN 1 ELSE Min(WorkerCap, n)

\* PoolSize without the cap: one worker per candidate
PoolSizeUncapped(n) == n

\* max_workers = min(20, len(domain_combinations))
PoolSize(n) == Min(WorkerCap, n)

Idle ==
    /\ pc = "call"
    /\ domain_combinations = << >>
    /\ max_workers = 0
    /\ work_queue = << >>
    /\ running = EmptyBag
    /\ stuck = EmptyBag
    /\ done = EmptyBag
    /\ results = << >>
    /\ origin = << >>
    /\ pbar = 0
    /\ raised = NoExc
    /\ table = << >>

\* a run on one candidate, the network answering anything
InitProbe ==
    /\ domains \in BaseLists
    /\ tlds_to_check \in SuffixLists
    /\ Len(domains) * Len(tlds_to_check) = 1
    /\ network = "any"
    /\ Idle

\* a run on a small batch
InitBatch ==
    /\ domains \in BaseLists
    /\ tlds_to_check \in SuffixLists
    /\ Len(domains) * Len(tlds_to_check) <= MaxBatch
    /\ network = "batch"
    /\ Idle

\* a run on a batch larger than the worker cap
InitPool ==
    /\ domains = [i \in 1..PoolBatch |-> "acme"]
    /\ tlds_to_check = <<".com">>
    /\ network = "pool"
    /\ Idle

Init == InitProbe \/ InitBatch \/ InitPool

(***************************************************************************)
(* DomainSearcher.check_domains and run                                    *)
(***************************************************************************)
\* lines 96-115: expand the candidates, size the pool, submit every candidate.
\* ThreadPoolExecutor raises ValueError when max_workers <= 0.
Submit ==
    /\ pc = "call"
    /\ domain_combinations' = Expand(domains, tlds_to_check)
    /\ max_workers' = PoolSize(Len(domain_combinations'))
    /\ IF max_workers' <= 0
       THEN /\ pc' = "raised"
            /\ raised' = Exc("ValueError", "max_workers must be greater than 0")
            /\ work_queue' = work_queue
       ELSE /\ pc' = "collect"
            /\ raised' = raised
            /\ work_queue' = domain_combinations'
    /\ UNCHANGED <<domains, tlds_to_check, network, running, stuck, done, results, origin,
                   pbar, table>>

\* CanStart keeping one worker of the pool back
CanStartOneLess ==
    Len(work_queue) > 0 /\ BagCardinality(running) + BagCardinality(stuck) < max_workers - 1

\* a free worker of the pool takes the next call of the queue
CanStart ==
    Len(work_queue) > 0 /\ BagCardinality(running) + BagCardinality(stuck) < max_workers

Start ==
    /\ pc = "collect"
    /\ CanStart
    /\ running' = running (+) SetToBag({Head(work_queue)})
    /\ work_queue' = Tail(work_queue)
    /\ UNCHANGED <<pc, domains, tlds_to_check, network, domain_combinations, max_workers,
                   stuck, done, results, origin, pbar, raised, table>>

\* Future of a probe that fills one result dict shared by the calls: the registrar
\* of the result collected last shows in it
FutureSharedResult(domain, a) ==
    LET c == check_domain_availability(domain, a)
    IN  [domain |-> domain, answer |-> a,
         call |-> IF ~c.raised /\ Len(results) > 0
                  THEN Returned([c.ret EXCEPT !.registrar = results[Len(results)].registrar])
                  ELSE c,
         calls |-> IF a.crash THEN << >> ELSE TryBlock(domain, a.dns, a.whois).calls]

\* the network calls the probe makes for an answer
Calls(domain, a) == IF a.crash THEN << >> ELSE TryBlock(domain, a.dns, a.whois).calls

\* the finished future of a call, with the network calls the call made
Future(domain, a) ==
    [domain |-> domain, answer |-> a, call |-> check_domain_availability(domain, a),
     calls |-> Calls(domain, a)]

\* a worker finishes its call: the future holds what the call returned or raised
Finish ==
    /\ pc = "collect"
    /\ \E d \in BagToSet(running) :
         \E a \in Answers(network) :
            /\ running' = running (-) SetToBag({d})
            /\ done' = done (+) SetToBag({Future(d, a)})
    /\ UNCHANGED <<pc, domains, tlds_to_check, network, domain_combinations, max_workers,
                   work_queue, stuck, results, origin, pbar, raised, table>>

\* lines 64 and 72 set no timeout: a call whose remote side never answers does not
\* return, and its worker stays in it
Hang ==
    /\ pc = "collect"
    /\ \E d \in BagToSet(running) :
         /\ running' = running (-) SetToBag({d})
         /\ stuck' = stuck (+) SetToBag({d})
    /\ UNCHANGED <<pc, domains, tlds_to_check, network, domain_combinations, max_workers,
                   work_queue, done, results, origin, pbar, raised, table>>

\* ErrorResult built from the result of the failed future, which holds no domain
ErrorResultNoDomain(domain, e) ==
    [domain |-> NoResult.domain, available |-> PyNone, error |-> str(e), registrar |-> PyNone,
     expiration_date |-> PyNone]

\* lines 123-133: the result made for a future that raised
ErrorResult(domain, e) ==
    [domain |-> domain, available |-> PyNone, error |-> str(e), registrar |-> PyNone,
     expiration_date |-> PyNone]

\* Collected when the first failure cancels what is still to be collected
CollectedCancelling(f) ==
    IF f.call.raised \/ \E k \in 1..Len(results) : results[k].available = PyNone
    THEN ErrorResult(f.domain, IF f.call.raised THEN f.call.exc ELSE Exc("CancelledError", ""))
    ELSE f.call.ret

\* lines 119-133: what the loop appends for a future
Collected(f) == IF f.call.raised THEN ErrorResult(f.domain, f.call.exc) ELSE f.call.ret

\* Update setting the count in place of adding to it
UpdateSets(n, k) == k

\* line 134: pbar.update(1)
Update(n, k) == n + k

\* lines 118-134: one round of the as_completed loop
Collect ==
    /\ pc = "collect"
    /\ \E f \in BagToSet(done) :
         /\ done' = done (-) SetToBag({f})
         /\ results' = Append(results, Collected(f))
         /\ origin' = Append(origin, [domain |-> f.domain, answer |-> f.answer,
                                       calls |-> f.calls])
    /\ pbar' = Update(pbar, 1)
    /\ UNCHANGED <<pc, domains, tlds_to_check, network, domain_combinations, max_workers,
                   work_queue, running, stuck, raised, table>>

\* AllCollected not waiting for the probes still running
AllCollectedEarly == work_queue = << >> /\ done = EmptyBag

\* every future has been yielded
AllCollected ==
    work_queue = << >> /\ running = EmptyBag /\ stuck = EmptyBag /\ done = EmptyBag

\* line 136: as_completed is exhausted, check_domains returns results
Return ==
    /\ pc = "collect"
    /\ AllCollected
    /\ pc' = "returned"
    /\ UNCHANGED <<domains, tlds_to_check, network, domain_combinations, max_workers,
                   work_queue, running, stuck, done, results, origin, pbar, raised, table>>

\* lines 161-166: the label of an availability
Status(available) ==
    IF available = PyTrue THEN "Available" ELSE IF available = PyFalse THEN "Taken" ELSE "Unknown"

\* lines 156-168: one row per result, in the order of results
TableData(res) == [k \in 1..Len(res) |-> <<res[k].domain, Status(res[k].available)>>]

\* lines 143-172: run hands the results to _pretty_print_results
PrettyPrint ==
    /\ pc = "returned"
    /\ table' = TableData(results)
    /\ pc' = "printed"
    /\ UNCHANGED <<domains, tlds_to_check, network, domain_combinations, max_workers,
                   work_queue, running, stuck, done, results, origin, pbar, raised>>

Next == Submit \/ Start \/ Finish \/ Hang \/ Collect \/ Return \/ PrettyPrint

Spec == Init /\ [][Next]_vars

\* the threads are scheduled fairly and a call that is answered returns; that a
\* call is answered at all is not assumed
FairSpec ==
    /\ Spec
    /\ WF_vars(Submit)
    /\ WF_vars(Start)
    /\ WF_vars(Finish)
    /\ WF_vars(Collect)
    /\ WF_vars(Return)
    /\ WF_vars(PrettyPrint)

(***************************************************************************)
(* Properties                                                              *)
(***************************************************************************)
\* check_domains has returned
HasReturned == pc \in {"returned", "printed"}

\* an answer that makes the probe fail: the call crashes, the DNS resolution
\* raises another error than gaierror, or the WHOIS lookup another than PywhoisError
Failing(a) ==
    \/ a.crash
    \/ a.dns.raises /\ a.dns.exc.cls # "gaierror"
    \/ a.whois.raises /\ a.whois.exc.cls # "PywhoisError"

\* how many results carry the domain d
Entries(d) == Cardinality({k \in 1..Len(results) : results[k].domain = d})

\* how many (base name, suffix) pairs of the input spell the domain d
Pairs(d) ==
    Cardinality({p \in (1..Len(domains)) \X (1..Len(tlds_to_check)) :
                    domains[p[1]] \o tlds_to_check[p[2]] = d})

PairDomains ==
    {domains[p[1]] \o tlds_to_check[p[2]] :
        p \in (1..Len(domains)) \X (1..Len(tlds_to_check))}

\* C1: the collection check_domains returns has |B| x |S| entries, and every
\* candidate base + suffix has as many entries as there are positions of the
\* expanded list that hold it: none missing, none duplicated, whatever failed
C1_Totality ==
    HasReturned =>
        /\ Len(results) = Len(domains) * Len(tlds_to_check)
        /\ \A d \in PairDomains \cup {results[k].domain : k \in 1..Len(results)} :
              Entries(d) = Pairs(d)

\* a batch of four with a name given twice has returned, one probe having crashed
\* and one timed out
C1_Witness ==
    /\ pc = "returned"
    /\ Len(domains) = 2
    /\ domains[1] = domains[2]
    /\ Len(results) = 4
    /\ \E k \in 1..Len(origin) : origin[k].answer = CrashAnswer
    /\ \E k \in 1..Len(origin) : origin[k].answer = TimeoutAnswer

\* C2: a failure in one candidate's probe leaves the number of results at N and
\* every other candidate with the result its own answers give (no probe is
\* cancelled or reported failed for it), and the failed candidate is Unknown
C2_FaultIsolation ==
    HasReturned =>
        /\ Len(results) = Len(domain_combinations)
        /\ \A k \in 1..Len(results) :
              /\ Failing(origin[k].answer) => results[k].available = PyNone
              /\ ~origin[k].answer.crash =>
                    results[k] =
                        Handlers(TryBlock(origin[k].domain, origin[k].answer.dns,
                                          origin[k].answer.whois)).ret

\* exactly one probe of a batch of four failed, and the others are Taken or Available
C2_Witness ==
    /\ pc = "returned"
    /\ Len(results) = 4
    /\ Cardinality({k \in 1..4 : Failing(origin[k].answer)}) = 1
    /\ \E k \in 1..4 : results[k].available = PyTrue
    /\ \E k \in 1..4 : results[k].available = PyFalse

\* the probes in flight
InFlight == BagCardinality(running) + BagCardinality(stuck)

\* C3: at most min(20, N) probes are in flight, and when that many are, the
\* candidates left in the queue are not started
C3_Ceiling ==
    /\ InFlight <= Min(20, Len(domains) * Len(tlds_to_check))
    /\ InFlight = Min(20, Len(domains) * Len(tlds_to_check)) => ~ENABLED Start

\* twenty probes are in flight and a candidate waits in the queue
C3_Witness == InFlight = 20 /\ Len(work_queue) > 0

\* C4: a result is Unknown exactly when its error is set, be it returned by the
\* probe or made by the dispatcher
C4_UnknownIffError ==
    /\ \A k \in 1..Len(results) : results[k].available = PyNone <=> results[k].error # PyNone
    /\ \A f \in BagToSet(done) :
          ~f.call.raised => (f.call.ret.available = PyNone <=> f.call.ret.error # PyNone)

\* a probe's Unknown, a dispatcher's Unknown and a definite result side by side
C4_Witness ==
    /\ \E k \in 1..Len(results) :
          origin[k].answer = CrashAnswer /\ results[k].available = PyNone
    /\ \E k \in 1..Len(results) :
          origin[k].answer = TimeoutAnswer /\ results[k].error = PyStr("timed out")
    /\ \E k \in 1..Len(results) : results[k].available = PyFalse /\ results[k].error = PyNone

\* C5: a result of check_domain_availability that has a registrar or an
\* expiration date is Taken, also when an exception is raised while these fields
\* are read
C5_FieldsOnlyWhenTaken ==
    \A f \in BagToSet(done) :
        (~f.call.raised /\ (f.call.ret.registrar # PyNone \/ f.call.ret.expiration_date # PyNone))
            => f.call.ret.available = PyFalse

\* the DNS resolution did not end the probe: the name resolved or gaierror was raised
DnsPassed(a) == ~a.dns.raises \/ a.dns.exc.cls = "gaierror"

\* reading the attribute raises no exception
Readable(attr) == attr.has # "raises"

\* the WHOIS lookup gave a record with a registration identifier, read without error
WhoisSaysTaken(w) ==
    /\ ~w.raises
    /\ w.domain_name \in SetNames
    /\ Readable(w.registrar)
    /\ Readable(w.expiration_date)

\* the WHOIS lookup gave a record with no registration identifier (None or an
\* empty list), or raised the no-match error
WhoisSaysAvailable(w) ==
    \/ w.raises /\ w.exc = PywhoisError
    \/ ~w.raises /\ w.domain_name \in {AttrValue(PyNone), AttrValue(PyList("[]", 0))}

C7_WhoisErrorIsUnknown ==
    \A k \in 1..Len(results) :
        LET a == origin[k].answer
        IN  (~a.crash /\ DnsPassed(a) /\ a.whois.raises /\ a.whois.exc.cls # "PywhoisError") =>
                /\ results[k].available = PyNone
                /\ results[k].error = PyStr(a.whois.exc.v)

\* the WHOIS server refused the connection after the name had resolved
C7_Witness ==
    \E k \in 1..Len(results) :
        /\ origin[k].answer.whois = WhoisRaises(Exc("ConnectionRefusedError",
                                                    "[Errno 111] Connection refused"))
        /\ ~origin[k].answer.dns.raises
        /\ results[k].available = PyNone

\* the names and suffixes of the model in alphabetical order
NamesInOrder == <<"acme", "beta">>

SuffixesInOrder == <<".ai", ".co", ".com">>

\* the place of a domain in the order by (base name, suffix)
SortKey(d) ==
    CHOOSE p \in (1..Len(NamesInOrder)) \X (1..Len(SuffixesInOrder)) :
        NamesInOrder[p[1]] \o SuffixesInOrder[p[2]] = d

KeyLeq(p, q) == p[1] < q[1] \/ (p[1] = q[1] /\ p[2] <= q[2])

\* C8: the collection handed to the presentation is sorted by (base name, suffix),
\* whatever order the probes completed in
C8_SortedResults ==
    HasReturned =>
        \A k \in 1..Len(results) :
            k < Len(results) => KeyLeq(SortKey(results[k].domain), SortKey(results[k + 1].domain))

\* reading the attribute raises an error that is not the no-match one
AttrFails(attr) == attr.has = "raises" /\ attr.exc.cls # "PywhoisError"

\* the DNS step, the WHOIS step or the reading of the record fails
ProbeFails(a) ==
    \/ a.dns.raises /\ a.dns.exc.cls # "gaierror"
    \/ /\ DnsPassed(a)
       /\ \/ a.whois.raises /\ a.whois.exc.cls # "PywhoisError"
          \/ ~a.whois.raises /\ a.whois.domain_name = AttrAbsent
          \/ /\ ~a.whois.raises
             /\ a.whois.domain_name \in SetNames
             /\ \/ AttrFails(a.whois.registrar)
                \/ Readable(a.whois.registrar) /\ AttrFails(a.whois.expiration_date)

\* C9: whatever the DNS step, the WHOIS step and the reading of the record do,
\* check_domain_availability returns a result for its domain and raises nothing;
\* after a failure the result is Unknown with the error set
C9_ProbeTotal ==
    \A f \in BagToSet(done) :
        ~f.answer.crash =>
            /\ ~f.call.raised
            /\ f.call.ret.domain = f.domain
            /\ ProbeFails(f.answer) =>
                  (f.call.ret.available = PyNone /\ f.call.ret.error.t = "str")

\* the DNS resolution rejected the name as invalid and the probe returned Unknown
C9_Witness ==
    /\ \E f \in BagToSet(done) :
          /\ f.answer.dns = DnsRaises(Exc("UnicodeError", "label empty or too long"))
          /\ f.call.ret.available = PyNone
          /\ ~f.call.raised

\* C10: for a task that raised, the dispatcher appends a result with the task's
\* domain, Unknown, the error set and no registrar or expiration date; it goes on
\* collecting the other tasks, and N results are returned
C10_Containment ==
    /\ \A k \in 1..Len(results) :
          origin[k].answer.crash =>
              /\ results[k].domain = origin[k].domain
              /\ results[k].available = PyNone
              /\ results[k].error.t = "str"
              /\ results[k].registrar = PyNone
              /\ results[k].expiration_date = PyNone
    /\ (pc = "collect" /\ done # EmptyBag) => ENABLED Collect
    /\ HasReturned => Len(results) = Len(domain_combinations)

\* a task raised, its result was appended first, and the three other results
\* were collected after it
C10_Witness ==
    /\ pc = "returned"
    /\ Len(results) = 4
    /\ origin[1].answer.crash
    /\ results[1].available = PyNone
    /\ \A k \in 2..4 : ~origin[k].answer.crash

\* C11: no probe waits without bound for its DNS or WHOIS call, so a batch that
\* is collecting can always go on to its return
C11_BatchNeverBlocks == pc = "collect" => ENABLED Next

\* C12: with no base name, check_domains raises at once (the pool's ValueError):
\* no probe is started and no result, partial or whole, is returned
C12_EmptyInputFails ==
    (domains = << >> /\ pc # "call") =>
        /\ pc = "raised"
        /\ raised.cls = "ValueError"
        /\ results = << >>
        /\ origin = << >>
        /\ InFlight = 0
        /\ done = EmptyBag
        /\ table = << >>

\* no base name and the three suffixes of __init__: the call has raised
C12_Witness == domains = << >> /\ tlds_to_check = DefaultTlds /\ pc = "raised"

\* C13: a WHOIS record whose domain_name is None, an empty list or an empty string
\* gives Available with no registrar and no expiration date; one with a domain
\* name gives Taken
C13_EmptyNameIsAvailable ==
    \A k \in 1..Len(results) :
        LET a == origin[k].answer
        IN  (~a.crash /\ DnsPassed(a) /\ ~a.whois.raises) =>
                /\ a.whois.domain_name \in EmptyNames =>
                      /\ results[k].available = PyTrue
                      /\ results[k].registrar = PyNone
                      /\ results[k].expiration_date = PyNone
                /\ WhoisSaysTaken(a.whois) => results[k].available = PyFalse

\* C14: a no-match error of the WHOIS parser gives Available, and a parser error
\* for a response that is no no-match gives Unknown with the error set
C14_ParseFailureIsUnknown ==
    \A k \in 1..Len(results) :
        LET a == origin[k].answer
        IN  (~a.crash /\ DnsPassed(a) /\ a.whois.raises) =>
                /\ a.whois.exc = PywhoisError => results[k].available = PyTrue
                /\ a.whois.exc = ParseFailure =>
                      (results[k].available = PyNone /\ results[k].error # PyNone)

\* C15: the candidates are the cross product, base name by base name and suffix by
\* suffix within each, and the pool's queue hands them out in that order
C15_ExpansionOrder ==
    pc # "call" =>
        /\ Len(domain_combinations) = Len(domains) * Len(tlds_to_check)
        /\ \A i \in 1..Len(domains) :
              \A j \in 1..Len(tlds_to_check) :
                 domain_combinations[(i - 1) * Len(tlds_to_check) + j]
                    = domains[i] \o tlds_to_check[j]
        /\ work_queue =
              SubSeq(domain_combinations,
                     Len(domain_combinations) - Len(work_queue) + 1,
                     Len(domain_combinations))

\* two base names and two suffixes: the first two candidates have been taken from
\* the queue
C15_Witness ==
    /\ pc = "collect"
    /\ domains = <<"acme", "beta">>
    /\ tlds_to_check = <<".com", ".ai">>
    /\ work_queue = <<"beta.com", "beta.ai">>

\* the run is over: the table is printed or check_domains has raised
Finished == pc \in {"printed", "raised"}

\* C16: when every call is answered, every candidate is started and finished and
\* check_domains returns one result per candidate, whatever fails
C16_Terminates ==
    [](stuck = EmptyBag) =>
        <>(Finished /\ (pc = "printed" => Len(results) = Len(domain_combinations)))

\* the batch larger than the pool has returned with every probe answered
C16_Witness ==
    /\ network = "pool"
    /\ pc = "returned"
    /\ stuck = EmptyBag
    /\ Len(results) > 20

\* C17: the count of the progress bar is the number of results, at most N, and N
\* at the return; results and count change only in a round of the collecting
\* loop, by one result appended and one added to the count, the workers' state
\* and the results already there left as they are
C17_ProgressAccounting ==
    /\ [](/\ pbar = Len(results)
          /\ pbar <= Len(domain_combinations)
          /\ HasReturned => pbar = Len(domain_combinations))
    /\ [][(results' # results \/ pbar' # pbar) =>
            /\ pbar' = pbar + 1
            /\ Len(results') = Len(results) + 1
            /\ SubSeq(results', 1, Len(results)) = results
            /\ BagCardinality(done') = BagCardinality(done) - 1
            /\ running' = running
            /\ stuck' = stuck
            /\ work_queue' = work_queue]_vars

\* two of four results are collected, one of them made for a task that raised
C17_Witness ==
    /\ pc = "collect"
    /\ Len(domain_combinations) = 4
    /\ pbar = 2
    /\ \E k \in 1..Len(origin) : origin[k].answer.crash

\* how often the call c occurs in the calls cs
Times(c, cs) == Cardinality({i \in 1..Len(cs) : cs[i] = c})

AtMostOnce(cs) == Times("gethostbyname", cs) <= 1 /\ Times("whois", cs) <= 1

\* C18: every candidate's probe is run once, with at most one DNS resolution and
\* at most one WHOIS lookup, failed or not, and a failed one is one Unknown result
C18_NoRetry ==
    /\ \A f \in BagToSet(done) : AtMostOnce(f.calls)
    /\ \A k \in 1..Len(origin) :
          /\ AtMostOnce(origin[k].calls)
          /\ Failing(origin[k].answer) => results[k].available = PyNone
    /\ pc \in {"collect", "returned", "printed"} =>
          Len(origin) + BagCardinality(done) + InFlight + Len(work_queue)
             = Len(domains) * Len(tlds_to_check)
    /\ HasReturned =>
          \A d \in PairDomains :
             Cardinality({k \in 1..Len(origin) : origin[k].domain = d}) = Pairs(d)

\* a probe whose DNS resolution raised an error made that one call and is Unknown
C18_Witness ==
    \E k \in 1..Len(origin) :
        /\ origin[k].answer.dns = DnsRaises(Exc("timeout", "timed out"))
        /\ origin[k].calls = <<"gethostbyname">>
        /\ results[k].available = PyNone

C20_WhoisAfterAnyDnsFailure ==
    \A f \in BagToSet(done) :
        ~f.answer.crash => f.calls = <<"gethostbyname", "whois">>

\* C20 amended: the DNS resolution comes first; after a success or a gaierror the
\* WHOIS lookup follows; after any other DNS error there is no WHOIS lookup and the
\* result is Unknown with that error; no result is Available without a WHOIS lookup
C20_DnsDefersOnGaierror ==
    \A f \in BagToSet(done) :
        ~f.answer.crash =>
            /\ f.calls[1] = "gethostbyname"
            /\ DnsPassed(f.answer) => f.calls = <<"gethostbyname", "whois">>
            /\ ~DnsPassed(f.answer) =>
                  /\ f.calls = <<"gethostbyname">>
                  /\ f.call.ret.available = PyNone
                  /\ f.call.ret.error = str(f.answer.dns.exc)
            /\ f.call.ret.available = PyTrue => Times("whois", f.calls) = 1

\* the name did not resolve (gaierror) and the WHOIS record made the result Taken
C20_Witness ==
    \E f \in BagToSet(done) :
        /\ f.answer.dns = DnsRaises(gaierror)
        /\ WhoisSaysTaken(f.answer.whois)
        /\ f.calls = <<"gethostbyname", "whois">>
        /\ f.call.ret.available = PyFalse

====
